---- MODULE Spec2Model ----
(***************************************************************************)
(* A model of the sqs-consumer Consumer: the self-rescheduling poll chain  *)
(* (start / stop / _poll / _handleSqsResponse), the per-message processor  *)
(* (_processMessage / _executeHandler / _deleteMessage /                   *)
(* _terminateVisabilityTimeout), the handler-versus-deadline race          *)
(* (createTimeout + Promise.race) and the visibility extender              *)
(* (extendTimeout).  Every await of the source is a suspension point: the  *)
(* code between two awaits is one atomic action.                           *)
(***************************************************************************)
EXTENDS Integers, Sequences, FiniteSets, TLC

(***************************************************************************)
(* Bounds of the model.                                                    *)
(***************************************************************************)
\* messages the consumer holds at once
MaxMsgs == 2
\* changeMessageVisibility extension rounds per message
MaxExt == 2
\* messages the consumer holds at once when the visibility extender is enabled
MaxExtendMsgs == 1

\* poll chains that may be live at once (start() after stop() adds one)
MaxChains == MaxMsgs

Msgs == 1..MaxMsgs
Chains == 1..MaxChains

\* options.batchSize values the model constructs a consumer with
BatchSizes == 1..MaxMsgs
\* options.handleMessageTimeout: 0 stands for "not configured"
Budgets == {0, 500}
\* the VisibilityTimeout attribute the queue reports
QueueVisibilityTimeouts == {30}
\* options.concurrencyLimit values of a consumer with a limit (0: no limit)
ConcurrencyLimits == 1..(MaxMsgs - 1)

\* largest options.batchSize the constructor is tried with
MaxBatchInput == 12
\* the integers the constructor is tried with as options.batchSize
BatchSizeInputs == (0 - MaxBatchInput)..MaxBatchInput

(***************************************************************************)
(* Errors.  An error value is its constructor, its statusCode and code.    *)
(***************************************************************************)
Err(cls, statusCode, code) == [cls |-> cls, statusCode |-> statusCode, code |-> code]

\* what a queue-client call can fail with
TransportErrors ==
  { Err("AWSError", 403, "AccessDenied"),
    Err("AWSError", 400, "CredentialsError"),
    Err("AWSError", 500, "InternalError") }

\* what a handler can reject with: an Error, an error named SQSError, a
\* TimeoutError of its own, or a value that is no object
HandlerErrors ==
  { Err("Error", 0, ""), Err("SQSError", 0, ""),
    Err("TimeoutError", 0, ""), Err("primitive", 0, "") }

\* faulty variant: the upper end of the range is excluded
validate_exclusive(o) ==
  IF ~o.queueUrl THEN "Missing SQS consumer option [queueUrl]."
  ELSE IF ~o.handleMessage THEN "Missing SQS consumer option [handleMessage]."
  ELSE IF o.batchSize >= 10 \/ o.batchSize < 1
       THEN "SQS batchSize option must be between 1 and 10."
       ELSE "ok"

\* validate: the message of the Error it throws, or "ok" (queueUrl and
\* handleMessage stand for "the option is given")
validate(o) ==
  IF ~o.queueUrl THEN "Missing SQS consumer option [queueUrl]."
  ELSE IF ~o.handleMessage THEN "Missing SQS consumer option [handleMessage]."
  ELSE IF o.batchSize > 10 \/ o.batchSize < 1
       THEN "SQS batchSize option must be between 1 and 10."
       ELSE "ok"

isAuthenticationError(err) ==
  err.statusCode = 403 \/ err.code = "CredentialsError"

toSQSError(err) == Err("SQSError", err.statusCode, err.code)

\* faulty variant: an empty response is processed like a batch
hasMessages_always(batch) == TRUE

hasMessages(batch) == batch # {}

(***************************************************************************)
(* State.                                                                  *)
(***************************************************************************)
VARIABLES
  consumer,           \* new Consumer(options): none (not run yet), constructed, threw
  options,            \* the constructor's options (never change)
  stopped,            \* this.stopped
  visibilityTimeout,  \* this.visibilityTimeout (0: undefined)
  chains,             \* the poll chains: each one's position and batch
  msgs,               \* the messages the consumer still refers to
  stopAwaited,        \* stop() was called with a cycle in flight and neither
                      \* `stopped` was emitted nor start() called since
  out                 \* the loop-level events emitted and queue calls issued
                      \* by the last step (per-message ones are in msgs[m].log)

vars == <<consumer, options, stopped, visibilityTimeout, chains, msgs, stopAwaited, out>>

\* one entry of out or of a message's log: an event or a queue-client call
E(name, arg) == <<name, arg>>

NoMsg ==
  [ pm |-> "none",                \* position of _processMessage
    handler |-> "none",           \* the handler's own promise
    timer |-> FALSE,              \* createTimeout's timer is armed
    timedOut |-> FALSE,           \* the deadline fired
    del |-> "none",               \* sqs.deleteMessage: none, pending, ok, failed
    rel |-> "none",               \* the release call: none, pending, ok, failed
    finishedProcessing |-> FALSE, \* message.finishedProcessing === true
    visibilityTimeout |-> 0,      \* message.visibilityTimeout
    ext |-> "off",                \* extendTimeout: off, call, timer, ended, failed
    nExt |-> 0,                   \* extension calls issued
    extDelay |-> 0,               \* delay (ms) of the extender's last setTimeout
    log |-> <<>> ]                \* events and calls of this message, in order

IdleChain == [pc |-> "idle", batch |-> {}]

\* a message nothing refers to any more: its cycle is over and no handler,
\* timer or extension call of it is pending
Discarded(m) ==
  /\ msgs[m].pm \in {"done", "dropped"}
  /\ \A c \in Chains : m \notin chains[c].batch
  /\ msgs[m].handler # "pending"
  /\ ~msgs[m].timer
  /\ msgs[m].ext \notin {"call", "timer"}

\* the messages a step starts from: the discarded ones are gone
Kept == [m \in Msgs |-> IF Discarded(m) THEN NoMsg ELSE msgs[m]]

Delivered == {m \in Msgs : Kept[m].pm # "none"}
Live == {c \in Chains : chains[c].pc # "idle"}

\* how many entries of s are named name
Count(s, name) == Cardinality({i \in DOMAIN s : s[i][1] = name})

(***************************************************************************)
(* The per-message processor.  Each operator gives the message's record    *)
(* after the code ran to its next await.                                   *)
(***************************************************************************)

\* faulty variant: the tracked timeout is pushed again without being doubled
extendTimeout_noDoubling(r) ==
  IF r.finishedProcessing # TRUE
  THEN [r EXCEPT !.ext = "call", !.nExt = @ + 1]
  ELSE [r EXCEPT !.ext = "ended"]

\* extendTimeout: double the tracked timeout and push it, unless finished
extendTimeout(r) ==
  IF r.finishedProcessing # TRUE
  THEN [r EXCEPT !.visibilityTimeout = @ * 2, !.ext = "call", !.nExt = @ + 1]
  ELSE [r EXCEPT !.ext = "ended"]

\* createTimeout is called only when a budget is configured
budgetConfigured == options.handleMessageTimeout # 0

\* _executeHandler up to its await: reset the metadata, start the extender,
\* arm the deadline and invoke the handler
executeHandler(r, vt) ==
  LET r0 == [r EXCEPT !.finishedProcessing = FALSE, !.visibilityTimeout = vt]
      r1 == IF options.extendVisibilityTimeout THEN extendTimeout(r0) ELSE r0
  IN [r1 EXCEPT !.timer = budgetConfigured, !.handler = "pending", !.pm = "handler"]

\* the catch and finally blocks of _executeHandler: the error it rethrows
executeHandlerCatch(r, err) ==
  IF err.cls = "TimeoutError"
  THEN [ rec |-> [r EXCEPT !.finishedProcessing = TRUE, !.timer = FALSE],
         err |-> err, budget |-> options.handleMessageTimeout ]
  ELSE IF err.cls = "primitive"
  THEN \* err.message = ... throws a TypeError before the flag is set
       [ rec |-> [r EXCEPT !.timer = FALSE],
         err |-> Err("TypeError", 0, ""), budget |-> 0 ]
  ELSE [ rec |-> [r EXCEPT !.finishedProcessing = TRUE, !.timer = FALSE],
         err |-> err, budget |-> 0 ]

\* the event _processMessage's catch block picks for an error
classify(err) ==
  IF err.cls = "SQSError" THEN "error"
  ELSE IF err.cls = "TimeoutError" THEN "timeout_error"
  ELSE "processing_error"

\* faulty variant: the visibility is released before the failure is reported
processMessageCatch_releaseFirst(r, err, arg) ==
  IF options.terminateVisibilityTimeout
  THEN [r EXCEPT !.pm = "releasing", !.rel = "pending",
                 !.log = @ \o <<E("changeMessageVisibility", 0), E(classify(err), arg)>>]
  ELSE [r EXCEPT !.pm = "done", !.log = Append(@, E(classify(err), arg))]

\* the catch block of _processMessage: emit, then release the visibility
processMessageCatch(r, err, arg) ==
  LET r1 == [r EXCEPT !.log = Append(@, E(classify(err), arg))]
  IN IF options.terminateVisibilityTimeout
     THEN [r1 EXCEPT !.pm = "releasing", !.rel = "pending",
                     !.log = Append(@, E("changeMessageVisibility", 0))]
     ELSE [r1 EXCEPT !.pm = "done"]

\* _processMessage up to its first await
processMessage(r, vt) ==
  executeHandler([r EXCEPT !.log = Append(@, E("message_received", 0))], vt)

\* faulty variant: the settlement of an abandoned handler is not discarded
awaitingHandler_always(r) == TRUE

\* Promise.race is still undecided: _processMessage awaits _executeHandler
awaitingHandler(r) == r.pm = "handler"

\* faulty variant: message_processed is reported without a delete call
handlerResolved_noDelete(r) ==
  IF r.pm = "handler"
  THEN [r EXCEPT !.handler = "resolved", !.timer = FALSE, !.pm = "done",
                 !.log = Append(@, E("message_processed", 0))]
  ELSE [r EXCEPT !.handler = "resolved"]

\* the handler's promise resolves
handlerResolved(r) ==
  IF awaitingHandler(r)
  THEN \* _executeHandler returns (clearTimeout), _deleteMessage is called
       [r EXCEPT !.handler = "resolved", !.timer = FALSE,
                 !.pm = "deleting", !.del = "pending",
                 !.log = Append(@, E("deleteMessage", 0))]
  ELSE \* the race was lost to the deadline: the settlement is discarded
       [r EXCEPT !.handler = "resolved"]

\* faulty variant: the delete call sits in a finally block, so a rejection deletes too
handlerRejected_alsoDeletes(r, err) ==
  IF r.pm = "handler"
  THEN LET c == executeHandlerCatch([r EXCEPT !.handler = "rejected"], err)
           x == processMessageCatch(c.rec, c.err, c.budget)
       IN [x EXCEPT !.del = "pending", !.log = Append(@, E("deleteMessage", 0))]
  ELSE [r EXCEPT !.handler = "rejected"]

\* the handler's promise rejects with err
handlerRejected(r, err) ==
  IF awaitingHandler(r)
  THEN LET c == executeHandlerCatch([r EXCEPT !.handler = "rejected"], err)
       IN processMessageCatch(c.rec, c.err, c.budget)
  ELSE [r EXCEPT !.handler = "rejected"]

\* createTimeout's timer fires: the race rejects with a TimeoutError
deadlineFired(r) ==
  LET c == executeHandlerCatch([r EXCEPT !.timedOut = TRUE], Err("TimeoutError", 0, ""))
  IN processMessageCatch(c.rec, c.err, c.budget)

\* faulty variant: message_processed is emitted before the delete's outcome is known
deleteSettled_reportsFirst(r, ok, err) ==
  LET r1 == [r EXCEPT !.log = Append(@, E("message_processed", 0))]
  IN IF ok
     THEN [r1 EXCEPT !.pm = "done", !.del = "ok"]
     ELSE processMessageCatch([r1 EXCEPT !.del = "failed"], toSQSError(err), 0)

\* _deleteMessage's call settles
deleteSettled(r, ok, err) ==
  IF ok
  THEN [r EXCEPT !.pm = "done", !.del = "ok",
                 !.log = Append(@, E("message_processed", 0))]
  ELSE processMessageCatch([r EXCEPT !.del = "failed"], toSQSError(err), 0)

\* faulty variant: the release is awaited outside a try block, so its rejection
\* escapes _processMessage
releaseSettled_rethrows(r, ok) ==
  IF ok
  THEN [r EXCEPT !.pm = "done", !.rel = "ok"]
  ELSE [r EXCEPT !.rel = "failed"]

\* _terminateVisabilityTimeout's call settles
releaseSettled(r, ok) ==
  IF ok
  THEN [r EXCEPT !.pm = "done", !.rel = "ok"]
  ELSE [r EXCEPT !.pm = "done", !.rel = "failed", !.log = Append(@, E("error", 0))]

\* the extension call settles: only its fulfilment schedules the next round
extendSettled(r, ok) ==
  IF ok
  THEN [r EXCEPT !.ext = "timer", !.extDelay = r.visibilityTimeout * 450]
  ELSE [r EXCEPT !.ext = "failed"]

(***************************************************************************)
(* The poll chain.                                                         *)
(***************************************************************************)

\* faulty variant: _poll does not look at the stopped flag
poll_ignoreStop(isStopped, vt) ==
  [ chain |-> [pc |-> "receive", batch |-> {}],
    out |-> <<E("receiveMessage", vt)>> ]

\* _poll up to its first await: emit `stopped` and end, or issue a receive
poll(isStopped, vt) ==
  IF isStopped
  THEN [ chain |-> IdleChain, out |-> <<E("stopped", 0)>> ]
  ELSE [ chain |-> [pc |-> "receive", batch |-> {}],
         out |-> <<E("receiveMessage", vt)>> ]

\* faulty variant: an authentication error reschedules _poll without the timer
pollCatch_noBackoff(err) ==
  [ chain |-> IF isAuthenticationError(err)
              THEN [pc |-> "receive", batch |-> {}]
              ELSE IdleChain,
    out |-> IF isAuthenticationError(err)
            THEN <<E("error", err), E("receiveMessage", 0)>>
            ELSE <<E("error", err)>> ]

\* the catch block of _poll: emit the error; only an authentication error
\* arms the timer that calls _poll again
pollCatch(err) ==
  [ chain |-> IF isAuthenticationError(err)
              THEN [pc |-> "backoff", batch |-> {}]
              ELSE IdleChain,
    out |-> <<E("error", err)>> ]

\* the messages of a batch that never reaches _handleSqsResponse
dropBatch(batch) ==
  [m \in Msgs |-> IF m \in batch THEN [msgs[m] EXCEPT !.pm = "dropped"] ELSE Kept[m]]

\* messages a consumer with these options holds at once
QueueHolds ==
  IF options.extendVisibilityTimeout THEN MaxExtendMsgs ELSE MaxMsgs

\* faulty variant: Promise.race in place of Promise.all
allSettled_any(batch) == \E m \in batch : msgs[m].pm = "done"

\* whether every _processMessage promise of the batch has resolved
allSettled(batch) == \A m \in batch : msgs[m].pm = "done"

\* the state after construction, for a concurrencyLimit among limits
Constructed(limits) ==
  /\ consumer = "constructed"
  /\ options \in [ queueUrl : {TRUE},
                   handleMessage : {TRUE},
                   batchSize : BatchSizes,
                   handleMessageTimeout : Budgets,
                   terminateVisibilityTimeout : BOOLEAN,
                   extendVisibilityTimeout : BOOLEAN,
                   concurrencyLimit : limits ]
  /\ stopped = TRUE
  /\ visibilityTimeout = 0
  /\ chains = [c \in Chains |-> IdleChain]
  /\ msgs = [m \in Msgs |-> NoMsg]
  /\ stopAwaited = FALSE
  /\ out = <<>>

\* the consumer of the source reads no concurrencyLimit
Init == Constructed({0})

\* start(): a no-op unless stopped; otherwise clears the flag and calls _poll
start ==
  /\ stopped => Live # Chains
  /\ IF stopped
     THEN LET c == CHOOSE i \in Chains \ Live : \A j \in Chains \ Live : i <= j
              p == poll(FALSE, visibilityTimeout)
          IN /\ stopped' = FALSE
             /\ chains' = [chains EXCEPT ![c] = p.chain]
             /\ stopAwaited' = FALSE
             /\ out' = p.out
     ELSE /\ out' = <<>>
          /\ UNCHANGED <<stopped, chains, stopAwaited>>
  /\ msgs' = Kept
  /\ UNCHANGED <<consumer, options, visibilityTimeout>>

\* stop(): sets the flag
stop ==
  /\ stopped' = TRUE
  /\ stopAwaited' = (Live # {})
  /\ out' = <<>>
  /\ msgs' = Kept
  /\ UNCHANGED <<consumer, options, visibilityTimeout, chains>>

\* what a step of chain c does to the chain and the run-state bookkeeping
chainStep(c, p) ==
  /\ chains' = [chains EXCEPT ![c] = p.chain]
  /\ out' = p.out
  /\ stopAwaited' = (stopAwaited /\ Count(p.out, "stopped") = 0)
  /\ UNCHANGED <<consumer, options, stopped>>

\* sqs.receiveMessage resolves with n messages: getQueueAttributes is issued
receiveResolved(c, n) ==
  /\ chains[c].pc = "receive"
  /\ Cardinality(Delivered) + n <= QueueHolds
  /\ LET free == Msgs \ Delivered
         batch == CHOOSE b \in SUBSET free :
                    /\ Cardinality(b) = n
                    /\ \A x \in b, y \in free \ b : x < y
     IN /\ msgs' = [m \in Msgs |-> IF m \in batch THEN [NoMsg EXCEPT !.pm = "held"]
                                                   ELSE Kept[m]]
        /\ chainStep(c, [ chain |-> [pc |-> "fetch", batch |-> batch],
                          out |-> <<E("getQueueAttributes", 0)>> ])
  /\ UNCHANGED visibilityTimeout

\* sqs.receiveMessage rejects: _receiveMessage wraps the error, _poll catches it
receiveRejected(c, err) ==
  /\ chains[c].pc = "receive"
  /\ chainStep(c, pollCatch(toSQSError(err)))
  /\ msgs' = Kept
  /\ UNCHANGED visibilityTimeout

\* slots of the concurrency limit not taken by a message being processed
freeConcurrentSlots ==
  options.concurrencyLimit
    - Cardinality({m \in Msgs : msgs[m].pm \in {"handler", "deleting", "releasing"}})

\* the messages of a batch that are dispatched at once: all of them without
\* a limit, otherwise as many as there are free slots
dispatchNow(batch) ==
  IF options.concurrencyLimit = 0
  THEN batch
  ELSE {m \in batch : Cardinality({n \in batch : n < m}) < freeConcurrentSlots}

\* faulty variant: the messages of a batch are processed one after the other
handleSqsResponse_oneByOne(c, batch, vt) ==
  IF hasMessages(batch)
  THEN /\ msgs' = [m \in Msgs |-> IF m \in batch /\ \A n \in batch : m <= n
                                  THEN processMessage(msgs[m], vt)
                                  ELSE Kept[m]]
       /\ chainStep(c, [chain |-> [pc |-> "process", batch |-> batch], out |-> <<>>])
  ELSE LET p == poll(stopped, vt)
       IN /\ chainStep(c, [chain |-> p.chain, out |-> <<E("empty", 0)>> \o p.out])
          /\ msgs' = Kept

\* _handleSqsResponse up to its await (or, for an empty batch, through _poll)
handleSqsResponse(c, batch, vt) ==
  IF hasMessages(batch)
  THEN /\ msgs' = [m \in Msgs |-> IF m \in dispatchNow(batch)
                                  THEN processMessage(msgs[m], vt)
                                  ELSE Kept[m]]
       /\ chainStep(c, [chain |-> [pc |-> "process", batch |-> batch], out |-> <<>>])
  ELSE LET p == poll(stopped, vt)
       IN /\ chainStep(c, [chain |-> p.chain, out |-> <<E("empty", 0)>> \o p.out])
          /\ msgs' = Kept

\* sqs.getQueueAttributes resolves: cache the timeout, hand the response over
attributesResolved(c, v) ==
  /\ chains[c].pc = "fetch"
  /\ visibilityTimeout' = v
  /\ handleSqsResponse(c, chains[c].batch, v)

\* sqs.getQueueAttributes rejects: _poll catches the raw error
attributesRejected(c, err) ==
  /\ chains[c].pc = "fetch"
  /\ msgs' = dropBatch(chains[c].batch)
  /\ chainStep(c, pollCatch(err))
  /\ UNCHANGED visibilityTimeout

\* the authentication-error timer fires: _poll
backoffElapsed(c) ==
  /\ chains[c].pc = "backoff"
  /\ chainStep(c, poll(stopped, visibilityTimeout))
  /\ msgs' = Kept
  /\ UNCHANGED visibilityTimeout

\* Promise.all resolves: emit response_processed, then _poll (the entry's
\* argument is the number of messages of the response)
batchSettled(c) ==
  /\ chains[c].pc = "process"
  /\ allSettled(chains[c].batch)
  /\ LET p == poll(stopped, visibilityTimeout)
     IN chainStep(c, [chain |-> p.chain,
                      out |-> <<E("response_processed", Cardinality(chains[c].batch))>>
                              \o p.out])
  /\ msgs' = Kept
  /\ UNCHANGED visibilityTimeout

(***************************************************************************)
(* Steps of one message.                                                   *)
(***************************************************************************)
msgStep(m, r) ==
  /\ msgs' = [Kept EXCEPT ![m] = r]
  /\ out' = <<>>
  /\ UNCHANGED <<consumer, options, stopped, visibilityTimeout, chains, stopAwaited>>

handlerResolves(m) ==
  /\ msgs[m].handler = "pending"
  /\ msgStep(m, handlerResolved(msgs[m]))

handlerRejects(m, err) ==
  /\ msgs[m].handler = "pending"
  /\ msgStep(m, handlerRejected(msgs[m], err))

deadlineFires(m) ==
  /\ msgs[m].timer
  /\ msgStep(m, deadlineFired(msgs[m]))

deleteResolves(m) ==
  /\ msgs[m].pm = "deleting"
  /\ msgStep(m, deleteSettled(msgs[m], TRUE, Err("none", 0, "")))

deleteRejects(m, err) ==
  /\ msgs[m].pm = "deleting"
  /\ msgStep(m, deleteSettled(msgs[m], FALSE, err))

releaseResolves(m) ==
  /\ msgs[m].pm = "releasing"
  /\ msgStep(m, releaseSettled(msgs[m], TRUE))

releaseRejects(m) ==
  /\ msgs[m].pm = "releasing"
  /\ msgStep(m, releaseSettled(msgs[m], FALSE))

extendResolves(m) ==
  /\ msgs[m].ext = "call"
  /\ msgStep(m, extendSettled(msgs[m], TRUE))

extendRejects(m) ==
  /\ msgs[m].ext = "call"
  /\ msgStep(m, extendSettled(msgs[m], FALSE))

\* the timer set by extendTimeout fires: extendTimeout runs again
extendTimerFires(m) ==
  /\ msgs[m].ext = "timer"
  /\ msgs[m].finishedProcessing \/ msgs[m].nExt < MaxExt
  /\ msgStep(m, extendTimeout(msgs[m]))

Next ==
  \/ start
  \/ stop
  \/ \E c \in Chains, n \in 0..options.batchSize : receiveResolved(c, n)
  \/ \E c \in Chains, err \in TransportErrors : receiveRejected(c, err)
  \/ \E c \in Chains, v \in QueueVisibilityTimeouts : attributesResolved(c, v)
  \/ \E c \in Chains, err \in TransportErrors : attributesRejected(c, err)
  \/ \E c \in Chains : backoffElapsed(c)
  \/ \E c \in Chains : batchSettled(c)
  \/ \E m \in Msgs : handlerResolves(m)
  \/ \E m \in Msgs, err \in HandlerErrors : handlerRejects(m, err)
  \/ \E m \in Msgs : deadlineFires(m)
  \/ \E m \in Msgs : deleteResolves(m)
  \/ \E m \in Msgs, err \in TransportErrors : deleteRejects(m, err)
  \/ \E m \in Msgs : releaseResolves(m)
  \/ \E m \in Msgs : releaseRejects(m)
  \/ \E m \in Msgs : extendResolves(m)
  \/ \E m \in Msgs : extendRejects(m)
  \/ \E m \in Msgs : extendTimerFires(m)

Spec == Init /\ [][Next]_vars

(***************************************************************************)
(* The consumer with a concurrency limit: a message of a batch that found  *)
(* no free slot waits, and is dispatched when a slot is free again.        *)
(***************************************************************************)
dispatchQueued(m) ==
  /\ options.concurrencyLimit # 0
  /\ freeConcurrentSlots > 0
  /\ msgs[m].pm = "held"
  /\ \E c \in Chains : chains[c].pc = "process" /\ m \in chains[c].batch
  /\ msgStep(m, processMessage(msgs[m], visibilityTimeout))

LimitInit == Constructed({0} \cup ConcurrencyLimits)

LimitNext ==
  \/ Next
  \/ \E m \in Msgs : dispatchQueued(m)

LimitSpec == LimitInit /\ [][LimitNext]_vars

(***************************************************************************)
(* Construction.  new Consumer(options) is tried with any integer batch    *)
(* size and with or without the required options, the other options at    *)
(* their defaults; a consumer that exists is started, stopped and polls.   *)
(***************************************************************************)
ConstructInit ==
  /\ consumer = "none"
  /\ options \in [ queueUrl : BOOLEAN,
                   handleMessage : BOOLEAN,
                   batchSize : BatchSizeInputs,
                   handleMessageTimeout : {0},
                   terminateVisibilityTimeout : {FALSE},
                   extendVisibilityTimeout : {FALSE},
                   concurrencyLimit : {0} ]
  /\ stopped = TRUE
  /\ visibilityTimeout = 0
  /\ chains = [c \in Chains |-> IdleChain]
  /\ msgs = [m \in Msgs |-> NoMsg]
  /\ stopAwaited = FALSE
  /\ out = <<>>

\* the constructor: validate throws, or the fields are set
construct ==
  /\ consumer = "none"
  /\ IF validate(options) = "ok"
     THEN consumer' = "constructed" /\ out' = <<>>
     ELSE consumer' = "threw" /\ out' = <<E("throw", validate(options))>>
  /\ stopped' = TRUE
  /\ UNCHANGED <<options, visibilityTimeout, chains, msgs, stopAwaited>>

ConstructNext ==
  \/ construct
  \/ consumer = "constructed" /\ start
  \/ consumer = "constructed" /\ stop
  \/ \E c \in Chains, err \in TransportErrors : receiveRejected(c, err)
  \/ \E c \in Chains : backoffElapsed(c)

ConstructSpec == ConstructInit /\ [][ConstructNext]_vars

(***************************************************************************)
(* Vocabulary of the properties.                                           *)
(***************************************************************************)
FailureEvents == {"error", "timeout_error", "processing_error"}
TerminalEvents == FailureEvents \cup {"message_processed"}

\* the terminal events of a log, in order
Terminals(log) == SelectSeq(log, LAMBDA e : e[1] \in TerminalEvents)

\* the handler resolved before any deadline fired
HandledInTime(r) == r.handler = "resolved" /\ ~r.timedOut

\* the message was handed to _processMessage and has no terminal event yet
InFlight(r) == r.pm \in {"handler", "deleting"}

(***************************************************************************)
(* C1.  A delete call is issued for a message only after its handler       *)
(* resolved and before any deadline fired: a message whose handler         *)
(* rejected, timed out or has not settled has no delete call.              *)
(***************************************************************************)
C1_DeleteOnlyAfterSuccess ==
  \A m \in Msgs :
    LET r == msgs[m]
    IN /\ Count(r.log, "deleteMessage") > 0 => HandledInTime(r)
       /\ r.del # "none" => Count(r.log, "deleteMessage") > 0

\* one message deleted after success while another, whose handler rejected
\* or timed out, is settled without a delete
C1_Witness ==
  \E m, n \in Msgs :
    /\ msgs[m].del = "ok"
    /\ msgs[n].pm = "done" /\ ~HandledInTime(msgs[n])
    /\ Count(msgs[n].log, "deleteMessage") = 0

(***************************************************************************)
(* C2 as stated.  Every message returned by a receive call gets exactly    *)
(* one terminal event, whatever the handler and the queue calls do.        *)
(***************************************************************************)
C2_ExactlyOneTerminalEvent ==
  \A m \in Msgs :
    LET t == Terminals(msgs[m].log)
    IN /\ Len(t) <= 1
       /\ msgs[m].pm \in {"done", "dropped"} => Len(t) = 1

(***************************************************************************)
(* C2 amended.  A message whose batch is dropped because the               *)
(* visibility-timeout fetch failed gets no event at all.  A message handed *)
(* to the processor gets exactly one first terminal event                  *)
(* (message_processed or one failure event); the only further event is one *)
(* `error`, emitted when the release call issued after a failure fails.    *)
(***************************************************************************)
C2_TerminalEvents ==
  \A m \in Msgs :
    LET r == msgs[m]
        t == Terminals(r.log)
    IN /\ r.pm \in {"none", "held", "dropped"} => r.log = <<>>
       /\ r.pm \in {"handler", "deleting"} => t = <<>>
       /\ r.pm = "releasing" => Len(t) = 1 /\ t[1][1] \in FailureEvents
       /\ r.pm = "done" =>
            IF r.rel = "failed"
            THEN /\ Len(t) = 2
                 /\ t[1][1] \in FailureEvents
                 /\ t[2][1] = "error"
                 /\ r.log[Len(r.log)] = E("error", 0)
                 /\ r.log[Len(r.log) - 1] = E("changeMessageVisibility", 0)
            ELSE Len(t) = 1

\* a message with a failure event followed by the release's own `error`,
\* beside a dropped one without any event
C2_Witness ==
  \E m, n \in Msgs :
    /\ msgs[m].pm = "done" /\ msgs[m].rel = "failed"
    /\ Len(Terminals(msgs[m].log)) = 2
    /\ msgs[n].pm = "dropped"

(***************************************************************************)
(* C3 as stated.  While the consumer is running no error outcome ends the  *)
(* polling: after a receive failure that is no authentication failure the  *)
(* next receive is scheduled, so a running consumer always has a poll      *)
(* chain that will issue a further receive.                                *)
(***************************************************************************)
C3_RunningConsumerKeepsPolling ==
  ~stopped => Live # {}

(***************************************************************************)
(* C4 as stated.  Once the handler has returned, rejected or timed out, no *)
(* further extension call is issued for the message.                       *)
(***************************************************************************)
C4_NoExtensionAfterHandling ==
  [][\A m \in Msgs :
       msgs[m].pm \in {"deleting", "releasing", "done"}
         => msgs'[m].nExt <= msgs[m].nExt]_vars

(***************************************************************************)
(* C5 as stated.  A message whose handler resolved in time gets exactly    *)
(* one delete call, exactly one message_processed and no failure event.    *)
(***************************************************************************)
C5_SuccessDeletesAndReports ==
  \A m \in Msgs :
    LET r == msgs[m]
    IN HandledInTime(r) =>
         /\ Count(r.log, "deleteMessage") = 1
         /\ \A e \in FailureEvents : Count(r.log, e) = 0
         /\ r.pm = "done" => Count(r.log, "message_processed") = 1

(***************************************************************************)
(* C5 amended.  A message whose handler resolved in time gets exactly one  *)
(* delete call.  If that call succeeds, exactly one message_processed and  *)
(* no failure event follow; if it fails, no message_processed is emitted   *)
(* and the message gets one `error` event instead (and a second one if the *)
(* release call then fails); timeout_error and processing_error never      *)
(* occur for it.                                                           *)
(***************************************************************************)
C5_SuccessDeletesOnce ==
  \A m \in Msgs :
    LET r == msgs[m]
    IN HandledInTime(r) =>
         /\ Count(r.log, "deleteMessage") = 1
         /\ Count(r.log, "timeout_error") = 0
         /\ Count(r.log, "processing_error") = 0
         /\ r.del \in {"pending", "ok", "failed"}
         /\ r.del = "pending" => Terminals(r.log) = <<>>
         /\ r.del = "ok" => /\ Count(r.log, "message_processed") = 1
                            /\ Count(r.log, "error") = 0
         /\ r.del = "failed" =>
              /\ Count(r.log, "message_processed") = 0
              /\ Count(r.log, "error") = IF r.rel = "failed" THEN 2 ELSE 1

\* one message deleted and reported, another whose delete call failed
C5_Witness ==
  \E m, n \in Msgs :
    /\ HandledInTime(msgs[m]) /\ msgs[m].del = "ok"
    /\ HandledInTime(msgs[n]) /\ msgs[n].del = "failed" /\ msgs[n].pm = "done"

(***************************************************************************)
(* C6.  When the deadline fires before the handler settles, the message    *)
(* gets exactly one timeout_error, whose message carries the configured    *)
(* budget, and never a delete call or a message_processed; the abandoned   *)
(* handler's later settlement adds no event and no queue call.             *)
(***************************************************************************)
TimedOutLog(r) ==
  /\ budgetConfigured
  /\ Count(r.log, "timeout_error") = 1
  /\ \A i \in DOMAIN r.log :
       r.log[i][1] = "timeout_error" => r.log[i][2] = options.handleMessageTimeout
  /\ Count(r.log, "deleteMessage") = 0
  /\ Count(r.log, "message_processed") = 0
  /\ r.del = "none"

C6_TimeoutIsFinal ==
  [][\A m \in Msgs :
       /\ msgs'[m].timedOut => TimedOutLog(msgs'[m])
       /\ (msgs[m].timedOut /\ msgs[m].handler = "pending" /\ msgs'[m].handler # "pending")
            => /\ msgs' = [Kept EXCEPT ![m].handler = msgs'[m].handler]
               /\ chains' = chains
               /\ out' = <<>>]_vars

\* a timed-out message whose handler resolved afterwards
C6_Witness ==
  \E m \in Msgs :
    /\ msgs[m].timedOut /\ msgs[m].handler = "resolved"
    /\ msgs[m].pm = "done"
    /\ Count(msgs[m].log, "timeout_error") = 1

(***************************************************************************)
(* C7 as stated.  Every poll cycle whose receive returned a non-empty      *)
(* batch emits message_received once per message and ends with exactly one *)
(* response_processed, emitted when every message has its terminal event.  *)
(***************************************************************************)
C7_BatchAlwaysReported ==
  [][\A c \in Chains :
       (chains[c].batch # {} /\ chains'[c].batch # chains[c].batch)
         => /\ \A m \in chains[c].batch :
                 /\ Count(msgs'[m].log, "message_received") = 1
                 /\ Terminals(msgs'[m].log) # <<>>
            /\ Count(out', "response_processed") = 1]_vars

(***************************************************************************)
(* C7 amended.  A poll cycle whose receive returned a non-empty batch and  *)
(* whose visibility-timeout fetch succeeded emits message_received exactly *)
(* once per message and then exactly one response_processed, whatever the  *)
(* outcome of each message; response_processed is emitted only when every  *)
(* message of the batch has its terminal event.  When the fetch fails the  *)
(* batch is dropped: neither message_received nor response_processed is    *)
(* emitted for it.                                                         *)
(***************************************************************************)
C7_BatchReported ==
  [][\A c \in Chains :
       LET batch == chains[c].batch
       IN /\ \* the dispatch emits message_received for each message, first
             (chains[c].pc = "fetch" /\ chains'[c].pc = "process")
               => /\ batch # {} /\ chains'[c].batch = batch
                  /\ \A m \in batch : msgs'[m].log[1] = E("message_received", 0)
                  /\ Count(out', "response_processed") = 0
          /\ \* no step of a message emits message_received again
             (chains[c].pc = "process" /\ chains'[c].pc = "process")
               => \A m \in batch : Count(msgs'[m].log, "message_received") = 1
          /\ \* the cycle ends only when every message has its terminal event
             (chains[c].pc = "process" /\ chains'[c].pc # "process")
               => /\ \A m \in batch :
                       /\ msgs'[m] = msgs[m]
                       /\ Count(msgs[m].log, "message_received") = 1
                       /\ Terminals(msgs[m].log) # <<>>
                  /\ out'[1] = E("response_processed", Cardinality(batch))
                  /\ Count(out', "response_processed") = 1
          /\ \* a failed fetch drops the batch silently
             (chains[c].pc = "fetch" /\ chains'[c].pc \notin {"fetch", "process"})
               => /\ \A m \in batch : msgs'[m].log = <<>>
                  /\ Count(out', "response_processed") = 0
          /\ \* nothing else emits response_processed
             (chains[c].pc # "process" /\ chains'[c] # chains[c])
               => Count(out', "response_processed") = 0]_vars

\* response_processed was just emitted for a batch of two, one message of
\* which was processed and the other failed; the cycle being over, both are
\* discarded
C7_Witness ==
  /\ out # <<>> /\ out[1][1] = "response_processed" /\ out[1][2] = 2
  /\ \E m, n \in Msgs :
       /\ Discarded(m) /\ Count(msgs[m].log, "message_processed") = 1
       /\ Discarded(n) /\ Count(msgs[n].log, "message_processed") = 0
       /\ Count(msgs[n].log, "message_received") = 1

(***************************************************************************)
(* C8 as stated.  After any sequence of start(), stop(), receive, handler  *)
(* and timer steps, the messages dispatched and still without a terminal   *)
(* event number at most the configured batch size.                         *)
(***************************************************************************)
C8_AtMostOneBatchInFlight ==
  Cardinality({m \in Msgs : InFlight(msgs[m])}) <= options.batchSize

(***************************************************************************)
(* C9.  While the consumer stays stopped no receive call is issued; stop() *)
(* changes nothing but the flag, and what is in flight goes on: a handler  *)
(* that resolves in time while stopped still gets its delete call, and a   *)
(* delete that succeeds while stopped still reports message_processed.     *)
(***************************************************************************)
C9_StopIsCooperative ==
  [][/\ stopped' =>
          /\ Count(out', "receiveMessage") = 0
          /\ \A c \in Chains : chains'[c].pc = "receive" => chains[c].pc = "receive"
     /\ (~stopped /\ stopped') => (chains' = chains /\ msgs' = Kept)
     /\ \A m \in Msgs :
          /\ (stopped /\ awaitingHandler(msgs[m]) /\ msgs'[m].handler = "resolved")
               => /\ msgs'[m].del = "pending"
                  /\ msgs'[m].log = Append(msgs[m].log, E("deleteMessage", 0))
          /\ (stopped /\ msgs[m].del = "pending" /\ msgs'[m].del = "ok")
               => msgs'[m].log = Append(msgs[m].log, E("message_processed", 0))]_vars

\* stop() was called during a cycle whose message is being deleted, and the
\* consumer was not started again
C9_Witness ==
  /\ stopped /\ stopAwaited
  /\ \E c \in Chains, m \in Msgs :
       /\ chains[c].pc = "process" /\ m \in chains[c].batch
       /\ msgs[m].del = "pending"

(***************************************************************************)
(* C10 as stated.  When stop() is called with a cycle in flight and        *)
(* start() is not called afterwards, `stopped` is emitted once the cycle   *)
(* is over: as long as that event is awaited, a poll chain is still there  *)
(* to emit it.                                                             *)
(***************************************************************************)
C10_StoppedIsEmitted ==
  stopAwaited => Live # {}

(***************************************************************************)
(* C11.  A receive call that fails with an authentication-classified error *)
(* emits one `error` (the SQSError made of it) and issues no receive: the  *)
(* poll chain waits for the backoff timer.  A receive is issued only by a  *)
(* chain that moves on to its receive, and a chain leaves the backoff only *)
(* by running _poll, which issues the receive if the consumer is running   *)
(* and emits `stopped` if stop() was called meanwhile.                     *)
(***************************************************************************)
C11_AuthenticationBackoff ==
  [][/\ \A c \in Chains :
          /\ \* the receive failed
             (chains[c].pc = "receive" /\ chains'[c].pc \notin {"receive", "fetch"})
               => /\ Len(out') = 1 /\ out'[1][1] = "error"
                  /\ out'[1][2].cls = "SQSError"
                  /\ isAuthenticationError(out'[1][2]) => chains'[c].pc = "backoff"
          /\ \* the backoff timer fired
             (chains[c].pc = "backoff" /\ chains'[c].pc # "backoff")
               => IF stopped
                  THEN chains'[c].pc = "idle" /\ out' = <<E("stopped", 0)>>
                  ELSE /\ chains'[c].pc = "receive"
                       /\ out' = <<E("receiveMessage", visibilityTimeout)>>
     /\ \* every receive call belongs to a chain that starts a cycle
        Count(out', "receiveMessage")
          = Cardinality({c \in Chains : chains[c].pc # "receive"
                                          /\ chains'[c].pc = "receive"})]_vars

\* a poll chain waiting for the backoff timer after the `error` of a receive
\* that failed with an authentication error
C11_Witness ==
  \E c \in Chains :
    /\ chains[c].pc = "backoff"
    /\ Len(out) = 1 /\ out[1][1] = "error"
    /\ out[1][2].cls = "SQSError" /\ isAuthenticationError(out[1][2])

(***************************************************************************)
(* C12.  With terminateVisibilityTimeout enabled, a message whose handler  *)
(* rejected or timed out has exactly one changeMessageVisibility call with *)
(* timeout 0, issued right after its failure event; with the option        *)
(* disabled no message ever has such a call.                               *)
(***************************************************************************)
\* the handler rejected in time, or the deadline fired first
HandlerFailed(r) ==
  \/ r.timedOut
  \/ r.handler = "rejected" /\ r.pm \in {"releasing", "done"}

\* the positions of the release calls in a log
Releases(log) == {i \in DOMAIN log : log[i] = E("changeMessageVisibility", 0)}

C12_ReleaseAfterFailure ==
  \A m \in Msgs :
    LET r == msgs[m]
    IN IF options.terminateVisibilityTimeout
       THEN HandlerFailed(r) =>
              /\ Cardinality(Releases(r.log)) = 1
              /\ \A i \in Releases(r.log) :
                   /\ i > 1 /\ r.log[i - 1][1] \in {"timeout_error", "processing_error", "error"}
                   /\ r.rel # "none"
       ELSE Releases(r.log) = {} /\ r.rel = "none"

\* with the option enabled, one message timed out and another was rejected,
\* and the release call of each has settled
C12_Witness ==
  /\ options.terminateVisibilityTimeout
  /\ \E m, n \in Msgs :
       /\ msgs[m].timedOut /\ msgs[m].pm = "done"
       /\ ~msgs[n].timedOut /\ msgs[n].handler = "rejected" /\ msgs[n].pm = "done"
       /\ Cardinality(Releases(msgs[m].log)) = 1
       /\ Cardinality(Releases(msgs[n].log)) = 1

(***************************************************************************)
(* C13.  A release call that fails is reported by one `error` and changes  *)
(* nothing else: the message is settled without a further release call,    *)
(* the other messages and the poll chains are left as they are, and the    *)
(* cycle of a batch holding such a message still ends with                 *)
(* response_processed followed by _poll (the next receive, or `stopped`).  *)
(***************************************************************************)
C13_ReleaseFailureSwallowed ==
  [][/\ \A m \in Msgs :
          /\ (msgs[m].rel = "pending" /\ msgs'[m].rel = "failed")
               => /\ msgs'[m].pm = "done"
                  /\ msgs'[m].log = Append(msgs[m].log, E("error", 0))
                  /\ \A n \in Msgs \ {m} : msgs'[n] = Kept[n]
                  /\ chains' = chains
          /\ msgs'[m].rel = "failed" => Cardinality(Releases(msgs'[m].log)) = 1
     /\ \A c \in Chains :
          (/\ chains[c].pc = "process" /\ chains'[c].pc # "process"
           /\ \E m \in chains[c].batch : msgs[m].rel = "failed")
            => /\ Len(out') = 2
               /\ out'[1][1] = "response_processed"
               /\ IF stopped
                  THEN chains'[c].pc = "idle" /\ out'[2][1] = "stopped"
                  ELSE chains'[c].pc = "receive" /\ out'[2][1] = "receiveMessage"]_vars

\* the cycle of a batch of two just ended with response_processed and the
\* next receive: the release of one message failed, the other was processed
C13_Witness ==
  /\ Len(out) = 2 /\ out[1][1] = "response_processed" /\ out[2][1] = "receiveMessage"
  /\ \E m, n \in Msgs :
       /\ Discarded(m) /\ msgs[m].rel = "failed"
       /\ Discarded(n) /\ msgs[n].del = "ok"

(***************************************************************************)
(* C14 as stated.  A failed visibility-timeout fetch is emitted as `error` *)
(* and the poll chain goes on: to the backoff timer if the failure is      *)
(* authentication-classified, otherwise straight to the next receive while *)
(* the consumer is running.                                                *)
(***************************************************************************)
C14_FetchFailureRecovers ==
  [][\A c \in Chains :
       (chains[c].pc = "fetch" /\ chains'[c].pc \notin {"fetch", "process"}
        /\ out' # <<>> /\ out'[1][1] = "error")
         => IF isAuthenticationError(out'[1][2])
            THEN chains'[c].pc = "backoff"
            ELSE stopped \/ chains'[c].pc = "receive"]_vars

(***************************************************************************)
(* C15 as stated.  A poll cycle whose receive returned an empty batch      *)
(* emits exactly one `empty`, no response_processed, touches no message    *)
(* and then runs _poll.                                                    *)
(***************************************************************************)
C15_EmptyBatchAlwaysReported ==
  [][\A c \in Chains :
       (chains[c].pc = "fetch" /\ chains[c].batch = {} /\ chains'[c] # chains[c])
         => /\ Count(out', "empty") = 1
            /\ Count(out', "response_processed") = 0
            /\ msgs' = Kept
            /\ IF stopped
               THEN chains'[c].pc = "idle" /\ Count(out', "stopped") = 1
               ELSE chains'[c].pc = "receive" /\ Count(out', "receiveMessage") = 1]_vars

(***************************************************************************)
(* C15 amended.  A poll cycle whose receive returned an empty batch and    *)
(* whose visibility-timeout fetch succeeded emits exactly one `empty`, no  *)
(* message_received and no response_processed, invokes no handler and      *)
(* issues no delete or changeMessageVisibility call, and then runs _poll   *)
(* (the next receive, or `stopped`).  When the fetch fails the cycle emits *)
(* `error` and no `empty`.  No other step emits `empty`.                   *)
(***************************************************************************)
C15_EmptyBatchReported ==
  [][/\ \A c \in Chains :
          (chains[c].pc = "fetch" /\ chains[c].batch = {} /\ chains'[c] # chains[c])
            => /\ msgs' = Kept
               /\ Count(out', "response_processed") = 0
               /\ out' # <<>>
               /\ IF out'[1][1] = "error"
                  THEN Len(out') = 1
                  ELSE /\ Len(out') = 2 /\ out'[1] = E("empty", 0)
                       /\ IF stopped
                          THEN chains'[c].pc = "idle" /\ out'[2][1] = "stopped"
                          ELSE chains'[c].pc = "receive" /\ out'[2][1] = "receiveMessage"
     /\ Count(out', "empty") > 0
          => \E c \in Chains : /\ chains[c].pc = "fetch" /\ chains[c].batch = {}
                                /\ chains'[c] # chains[c]]_vars

\* an empty cycle just emitted `empty` and issued the next receive
C15_Witness ==
  /\ Len(out) = 2 /\ out[1][1] = "empty" /\ out[2][1] = "receiveMessage"
  /\ \E c \in Chains : chains[c].pc = "receive"

(***************************************************************************)
(* C16.  With a concurrency limit L configured, the messages under active  *)
(* handling (the processor awaits the handler it invoked; a handler        *)
(* abandoned at its deadline is no longer handled) never number more than  *)
(* L, whatever batches and poll chains they belong to.  Without a limit,   *)
(* every message of a batch is dispatched in the step that starts the      *)
(* batch.                                                                  *)
(***************************************************************************)
UnderHandling == {m \in Msgs : msgs[m].pm = "handler"}

C17_ConstructionValidates ==
  [][/\ (consumer = "none" /\ consumer' # "none")
          => /\ consumer' = "constructed"
                  <=> /\ options.queueUrl /\ options.handleMessage
                      /\ 1 <= options.batchSize /\ options.batchSize <= 10
             /\ consumer' = "threw"
                  <=> (Len(out') = 1 /\ out'[1][1] = "throw")
     /\ consumer' # "constructed"
          => /\ Count(out', "receiveMessage") = 0
             /\ Live' = {}
             /\ stopped']_vars

\* the constructor threw for a batch size of 11 with both required options
C17_Witness ==
  /\ consumer = "threw"
  /\ options.queueUrl /\ options.handleMessage /\ options.batchSize = 11
  /\ out = <<E("throw", "SQS batchSize option must be between 1 and 10.")>>

(***************************************************************************)
(* C18 as stated.  Whatever the interleaving of start(), stop() and the    *)
(* steps of a poll cycle, at most one poll chain is live: never two        *)
(* receives in flight, nor a receive in flight beside another chain's      *)
(* batch or backoff timer.                                                 *)
(***************************************************************************)
C18_SinglePollChain ==
  Cardinality(Live) <= 1

(***************************************************************************)
(* C19 as stated.  With extendVisibilityTimeout enabled, a message that    *)
(* was handed to its handler and whose finishedProcessing is still false   *)
(* has an extension call in flight or a reschedule timer pending, whether  *)
(* the previous extension call succeeded or failed.                        *)
(***************************************************************************)
C19_ExtenderStaysActive ==
  options.extendVisibilityTimeout =>
    \A m \in Msgs :
      (msgs[m].pm \in {"handler", "deleting", "releasing", "done"}
       /\ ~msgs[m].finishedProcessing)
        => msgs[m].ext \in {"call", "timer"}

(***************************************************************************)
(* C20.  With extendVisibilityTimeout enabled, the first extension call is *)
(* issued in the step that hands the message to its handler and pushes     *)
(* twice the queue timeout V cached by that cycle; every following call    *)
(* is issued when the timer armed after the previous call resolved fires,  *)
(* pushes twice the previous value, and that timer's delay is 450 ms per   *)
(* second of the value just pushed, which is less than that value: the     *)
(* n-th call pushes V * 2^n.  With the option disabled no extension call   *)
(* is issued: every changeMessageVisibility call has timeout 0.            *)
(***************************************************************************)
C20_ExtensionDoubles ==
  [][\A m \in Msgs :
       LET r == msgs[m]
           r2 == msgs'[m]
       IN /\ \* handling starts
             (r.pm = "held" /\ r2.pm = "handler")
               => IF options.extendVisibilityTimeout
                  THEN /\ r2.nExt = 1 /\ r2.ext = "call"
                       /\ r2.visibilityTimeout = 2 * visibilityTimeout'
                  ELSE r2.nExt = 0 /\ r2.ext = "off"
          /\ \* a following call
             (r.pm \notin {"none", "held"} /\ r2.nExt > r.nExt)
               => /\ r2.nExt = r.nExt + 1
                  /\ r.ext = "timer" /\ r2.ext = "call"
                  /\ r2.visibilityTimeout = 2 * r.visibilityTimeout
                  /\ r.extDelay = 450 * r.visibilityTimeout
                  /\ r.extDelay < 1000 * r.visibilityTimeout
          /\ \* the value pushed by the n-th call
             r2.nExt > 0
               => \E V \in QueueVisibilityTimeouts : r2.visibilityTimeout = V * 2^(r2.nExt)
          /\ ~options.extendVisibilityTimeout
               => /\ r2.nExt = 0
                  /\ \A i \in DOMAIN r2.log :
                       r2.log[i][1] = "changeMessageVisibility" => r2.log[i][2] = 0]_vars

\* the second extension call of a message is in flight: with the queue's
\* timeout of 30 it pushes 120, the first having pushed 60
C20_Witness ==
  \E m \in Msgs :
    /\ msgs[m].nExt = 2 /\ msgs[m].ext = "call"
    /\ msgs[m].visibilityTimeout = 120
    /\ msgs[m].extDelay = 27000

====
